---- MODULE Spec2Model ----
(***************************************************************************)
(* The process supervisor of program-tray (src/src/launcher.rs): the       *)
(* Launcher, its shared child slot, the two stream readers and the status  *)
(* poller launched by start(), and the stop()/stop_async() paths; and the  *)
(* Program it is built from, read from a configuration file                *)
(* (src/src/config.rs); and the UI that drives it (src/src/ui): the tray,  *)
(* the terminal window and the launcher adapter behind one message         *)
(* channel.                                                                *)
(***************************************************************************)
EXTENDS Integers, Sequences, FiniteSets, TLC

VARIABLES
    file,         \* the configuration file: <<>> when there is none, else <<its lines>>
    loaded,       \* what parse_properties_file returned: "none" before the call
    program,      \* the Program the launcher is built from (config.rs, struct Program)
    osEnv,        \* the environment of the supervisor's own process
    command,      \* Launcher.command, a sequence of one-character strings
    superuser,    \* Launcher.superuser
    input,        \* Launcher.input: "none" or "some"
    budget,       \* how many more children this run may spawn (model bound)
    wbudget,      \* how many more chunks the children of this run may write (model bound)
    slot,         \* Launcher.child: 0 = None, g = Some(handle of child g)
    lock,         \* holder of the slot mutex across steps: {} or {t}, t a stop thread
    proc,         \* the OS view of every child: state and exit status
    stream,       \* per child and stream: bytes in the pipe, chunks written
    outHandler,   \* Launcher.output_handler: identity of the installed Arc
    statHandler,  \* Launcher.status_handler: identity of the installed Arc
    caller,       \* the thread that calls the public methods
    stopper,      \* stop(): index 0 is the caller's synchronous stop, k > 0 a stop_async thread
    reader,       \* process_output threads, per child and stream
    poller,       \* process_status threads, per child
    notified,     \* per child: how often a status sink was invoked with its status
    stopreq,      \* a stop was requested since the last spawn, or was pending at it
    lastExec,     \* the last OS-level spawn: program, arguments, environment, stdin
    ui            \* the UI (src/src/ui): its message channel, the tray, the terminal window

vars == <<file, loaded, program, osEnv, command, superuser, input, budget, wbudget, slot, lock, proc, stream,
          outHandler, statHandler, caller, stopper, reader, poller,
          notified, stopreq, lastExec, ui>>

\* What no method and no thread of the launcher changes: what is fixed once
\* the launcher is built, and the state of the UI.
config == <<file, loaded, program, osEnv, command, superuser, input, ui>>

(***************************************************************************)
(* Bounds of the model.                                                    *)
(***************************************************************************)
MaxStarts == 3        \* children spawned in one run of SpecRace
CoreStarts == 2       \* children spawned in one run of SpecCore
IoStarts == 1         \* children spawned in one run of Spec
MaxStopTasks == 1     \* stop_async threads alive at once
MaxWrites == 2        \* chunks the children write in one run of Spec
MaxHandlerSets == 1   \* set_output_handler + set_status_handler calls in one run
MaxCmdLen == 3        \* length of the command lines of SpecCmd
CmdStarts == 1        \* children spawned in one run of SpecCmd
SinkStarts == 2       \* children spawned in one run of SpecSinks
SinkWrites == 2       \* chunks the children write in one run of SpecSinks
NewStarts == 1        \* children spawned in one run of SpecNew
ArgStarts == 1        \* children spawned in one run of SpecArgs
ArgTextLen == 4       \* length of the command templates of SpecArgs
ArgInputLen == 2      \* length of the input templates of SpecArgs
ConfStarts == 1       \* children spawned in one run of SpecConf
MaxConfLines == 3     \* lines of the configuration files of SpecConf
UiStarts == 2         \* children spawned in one run of SpecUi
MaxPending == 2       \* messages of the UI's own threads waiting in the channel

(***************************************************************************)
(* Program constants.                                                      *)
(***************************************************************************)
ReadBufLen == 1024    \* let mut buf = [0u8; 1024]
ReplacementChar == 65533   \* U+FFFD, what from_utf8_lossy puts for invalid bytes

SUDO_COMMAND == "pkexec"

Gens == 1..MaxStarts
Streams == {"stdout", "stderr"}
StopThreads == 0..MaxStopTasks

Min(a, b) == IF a < b THEN a ELSE b

(***************************************************************************)
(* shlex::split as start() calls it (launcher.rs line 83), over the        *)
(* characters blank, quote, hash, backslash and ordinary ones.  A word     *)
(* starts at the first non-blank character; a hash at the start of a word  *)
(* opens a comment that runs to the end of the line; a quote copies up to  *)
(* the closing quote; a backslash copies the next character.  An unclosed  *)
(* quote or a trailing backslash is an error, and split returns None.      *)
(***************************************************************************)
IsBlank(ch) == ch = " "

\* Shlex::next, the skip loop: the index of the first character of the next
\* word at or after i, or 0 when the input ends first.
RECURSIVE SkipBlank(_, _)
SkipBlank(s, i) ==
    IF i > Len(s) THEN 0
    ELSE IF IsBlank(s[i]) THEN SkipBlank(s, i + 1)
    ELSE IF s[i] = "#" THEN 0
    ELSE i

\* Shlex::parse_single, from the character after the opening quote.
RECURSIVE ParseSingle(_, _, _)
ParseSingle(s, i, w) ==
    IF i > Len(s) THEN [ok |-> FALSE, w |-> w, i |-> i]
    ELSE IF s[i] = "'" THEN [ok |-> TRUE, w |-> w, i |-> i + 1]
    ELSE ParseSingle(s, i + 1, Append(w, s[i]))

\* Shlex::parse_word, with s[i] the current character.
RECURSIVE ParseWord(_, _, _)
ParseWord(s, i, w) ==
    IF i > Len(s) THEN [ok |-> TRUE, w |-> w, i |-> i]
    ELSE IF s[i] = "'" THEN
        LET r == ParseSingle(s, i + 1, w)
        IN  IF r.ok THEN ParseWord(s, r.i, r.w) ELSE r
    ELSE IF s[i] = "\\" THEN
        IF i + 1 > Len(s) THEN [ok |-> FALSE, w |-> w, i |-> i + 1]
        ELSE ParseWord(s, i + 2, Append(w, s[i + 1]))
    ELSE IF IsBlank(s[i]) THEN [ok |-> TRUE, w |-> w, i |-> i + 1]
    ELSE ParseWord(s, i + 1, Append(w, s[i]))

\* The iterator collected: the words read, and whether an error ended it.
RECURSIVE ShlexWords(_, _, _)
ShlexWords(s, i, acc) ==
    LET j == SkipBlank(s, i)
    IN  IF j = 0 THEN [err |-> FALSE, words |-> acc]
        ELSE LET r == ParseWord(s, j, <<>>)
             IN  IF r.ok THEN ShlexWords(s, r.i, Append(acc, r.w))
                 ELSE [err |-> TRUE, words |-> acc]

\* A split that falls back to the whole command line whenever it has no
\* words to give; C3 does not hold for it.
SplitOrWhole(cmd) ==
    LET r == ShlexWords(cmd, 1, <<>>)
    IN  IF r.err \/ r.words = <<>> THEN <<cmd>> ELSE r.words

\* split(&self.command).unwrap_or_else(|| vec![self.command.to_string()])
SplitCommand(cmd) ==
    LET r == ShlexWords(cmd, 1, <<>>)
    IN  IF r.err THEN <<cmd>> ELSE r.words

\* match self.superuser { true => (pkexec, &parts[..]), false => (&parts[0], &parts[1..]) }
ExecOf(su, parts) ==
    IF su THEN [program |-> <<SUDO_COMMAND>>, args |-> parts]
    ELSE [program |-> parts[1], args |-> Tail(parts)]

(***************************************************************************)
(* String::from_utf8_lossy on the bytes the model writes: an ASCII byte is *)
(* its character, a two-byte lead (0xC2..0xDF) followed by a continuation  *)
(* byte (0x80..0xBF) is one character, and any other byte is replaced by   *)
(* U+FFFD.  The result is a sequence of code points.                       *)
(***************************************************************************)
IsAscii(b) == b < 128
IsLead2(b) == b >= 194 /\ b <= 223
IsCont(b) == b >= 128 /\ b <= 191

RECURSIVE Utf8Lossy(_)
Utf8Lossy(bytes) ==
    IF bytes = <<>> THEN <<>>
    ELSE LET b == Head(bytes)
             rest == Tail(bytes)
         IN  IF IsAscii(b) THEN <<b>> \o Utf8Lossy(rest)
             ELSE IF IsLead2(b) /\ rest # <<>> /\ IsCont(Head(rest))
                  THEN <<(b - 192) * 64 + (Head(rest) - 128)>> \o Utf8Lossy(Tail(rest))
             ELSE <<ReplacementChar>> \o Utf8Lossy(rest)

(***************************************************************************)
(* The Program of config.rs.  A text is a sequence of one-character        *)
(* strings, an optional text is <<>> or <<text>>, a table is a function.   *)
(***************************************************************************)
NoTable == [k \in {} |-> <<>>]

\* \w of the regex, over the characters of the model.
IsWordChar(ch) == ch \in {"a", "b", "_"}

\* The last position of the run of word characters that starts at i.
RECURSIVE WordEnd(_, _)
WordEnd(s, i) == IF i < Len(s) /\ IsWordChar(s[i + 1]) THEN WordEnd(s, i + 1) ELSE i

\* A closure that drops the placeholder of an unknown name; C20 does not
\* hold for it.
ExpandOrDrop(name, args) == IF name \in DOMAIN args THEN args[name] ELSE <<>>

\* The closure of replace_args, lines 81-89: the value of the name, or the
\* placeholder as it was.
Expand(name, args) == IF name \in DOMAIN args THEN args[name] ELSE <<"$">> \o name

\* re.replace_all, lines 79-91, from position i on: the matches of \$(\w+)
\* from left to right, the text between them copied.
RECURSIVE ReplaceFrom(_, _, _)
ReplaceFrom(s, i, args) ==
    IF i > Len(s) THEN <<>>
    ELSE IF s[i] = "$" /\ i < Len(s) /\ IsWordChar(s[i + 1])
         THEN LET j == WordEnd(s, i + 1)
              IN  Expand(SubSeq(s, i + 1, j), args) \o ReplaceFrom(s, j + 1, args)
         ELSE <<s[i]>> \o ReplaceFrom(s, i + 1, args)

\* replace_args, lines 77-92.
replace_args(str, args) == ReplaceFrom(str, 1, args)

\* Program::get_command, lines 49-51.
get_command(p) == replace_args(p.command, p.args)

\* Program::get_input, lines 57-59.
get_input(p) == IF p.input = <<>> THEN <<>> ELSE <<replace_args(p.input[1], p.args)>>

\* Program::need_superuser, lines 53-55.
need_superuser(p) == p.superuser

\* Program::get_env, lines 45-47.
get_env(p) == p.env

\* Launcher::new, launcher.rs lines 32-42: the fields taken from the Program.
new(p) ==
    [command |-> get_command(p), superuser |-> TRUE, input |-> get_input(p), env |-> get_env(p)]

\* Whether the launcher has a stdin payload.
InputKind(opt) == IF opt = <<>> THEN "none" ELSE "some"

\* A spawn in which an inherited variable wins over a configured one; C19
\* does not hold for it.
InheritedFirst(os, configured) ==
    [k \in DOMAIN os \cup DOMAIN configured |->
        IF k \in DOMAIN os THEN os[k] ELSE configured[k]]

\* Command::envs on the inherited environment, launcher.rs line 99: the
\* configured variables over those of the supervisor's process.
ChildEnv(os, configured) ==
    [k \in DOMAIN os \cup DOMAIN configured |->
        IF k \in DOMAIN configured THEN configured[k] ELSE os[k]]

(***************************************************************************)
(* The configuration file, config.rs lines 94-104.  A file is a sequence   *)
(* of lines: a pair key = value with a string, a boolean or an integer     *)
(* written as the value, a line that is no TOML at all, or a line of bytes *)
(* that are not UTF-8.                                                     *)
(***************************************************************************)
NoFile == <<>>

Pair(k, t, v) == [kind |-> "pair", key |-> k, type |-> t, val |-> v]

ConfLines ==
    {Pair("id", "string", <<"a">>),
     Pair("command", "string", <<"a", " ", "a">>),
     Pair("command", "integer", <<"1">>),
     Pair("superuser", "boolean", <<"true">>),
     Pair("input", "string", <<"a">>),
     Pair("title", "string", <<"a">>),
     [kind |-> "garbage", key |-> "", type |-> "", val |-> <<>>],
     [kind |-> "binary", key |-> "", type |-> "", val |-> <<>>]}

\* fs::read_to_string, line 95: the text of the file; no file and bytes
\* that are not UTF-8 are errors of the read.
read_to_string(f) ==
    IF f = NoFile THEN [kind |-> "NotFound", text |-> <<>>]
    ELSE IF \E i \in 1..Len(f[1]) : f[1][i].kind = "binary"
         THEN [kind |-> "InvalidData", text |-> <<>>]
    ELSE [kind |-> "Ok", text |-> f[1]]

\* The TOML parser, line by line from line i: the table of the keys read so
\* far; a line that is no pair and a key defined twice are errors.
RECURSIVE TomlTable(_, _, _)
TomlTable(text, i, acc) ==
    IF i > Len(text) THEN [err |-> FALSE, table |-> acc]
    ELSE IF text[i].kind # "pair" \/ text[i].key \in DOMAIN acc
         THEN [err |-> TRUE, table |-> acc]
    ELSE TomlTable(text, i + 1,
                   [k \in DOMAIN acc \cup {text[i].key} |->
                       IF k = text[i].key THEN [type |-> text[i].type, val |-> text[i].val]
                       ELSE acc[k]])

\* Key k is absent from table t, or has a value of type ty.
Typed(t, k, ty) == k \in DOMAIN t => t[k].type = ty

\* A Program whose command may be left out, as if it had #[serde(default)];
\* C21 does not hold for it.
DeserializeLenient(t) ==
    IF ~("id" \in DOMAIN t /\ Typed(t, "id", "string") /\ Typed(t, "command", "string")
         /\ Typed(t, "superuser", "boolean") /\ Typed(t, "input", "string"))
    THEN [err |-> TRUE, program |-> <<>>]
    ELSE [err |-> FALSE,
          program |-> [command |-> IF "command" \in DOMAIN t THEN t["command"].val ELSE <<>>,
                       superuser |-> "superuser" \in DOMAIN t /\ t["superuser"].val = <<"true">>,
                       input |-> IF "input" \in DOMAIN t THEN <<t["input"].val>> ELSE <<>>,
                       args |-> NoTable,
                       env |-> NoTable]]

\* #[derive(Deserialize)] of struct Program, lines 11-24: id and command are
\* required strings, superuser is false and input is None when left out,
\* and a key that is no field is skipped.  The record has the fields the
\* launcher reads.
Deserialize(t) ==
    IF ~("id" \in DOMAIN t /\ Typed(t, "id", "string")
         /\ "command" \in DOMAIN t /\ Typed(t, "command", "string")
         /\ Typed(t, "superuser", "boolean") /\ Typed(t, "input", "string"))
    THEN [err |-> TRUE, program |-> <<>>]
    ELSE [err |-> FALSE,
          program |-> [command |-> t["command"].val,
                       superuser |-> "superuser" \in DOMAIN t /\ t["superuser"].val = <<"true">>,
                       input |-> IF "input" \in DOMAIN t THEN <<t["input"].val>> ELSE <<>>,
                       args |-> NoTable,
                       env |-> NoTable]]

\* parse_content, lines 99-104: every error of toml::from_str becomes
\* InvalidInput.
parse_content(content) ==
    LET t == TomlTable(content, 1, NoTable)
    IN  IF t.err \/ Deserialize(t.table).err THEN [kind |-> "InvalidInput", program |-> <<>>]
        ELSE [kind |-> "Ok", program |-> Deserialize(t.table).program]

\* parse_properties_file, lines 94-97: an error of the read is returned as
\* it is.
parse_properties_file(f) ==
    LET content == read_to_string(f)
    IN  IF content.kind # "Ok" THEN [kind |-> content.kind, program |-> <<>>]
        ELSE parse_content(content.text)

(***************************************************************************)
(* State.                                                                  *)
(***************************************************************************)
NoProc == [st |-> "none", status |-> "none"]
NoStream == <<>>
NoReader == [pc |-> "none", h |-> 0, text |-> <<>>]
NoPoller == [pc |-> "none", h |-> 0, got |-> 0, status |-> "none"]
NoStop == [pc |-> "none", target |-> 0]
NoStdin == [data |-> <<>>, open |-> FALSE]

\* Tray::new (ui/tray.rs, lines 54-72): the items "Start" and "Show",
\* enabled, the off icon, both flags false.
NewTray ==
    [item_run |-> [text |-> "Start", enabled |-> TRUE], item_show |-> [text |-> "Show"],
     icon |-> "off", is_running |-> FALSE, is_shown |-> FALSE]

\* Terminal::new (ui/terminal.rs, lines 36-82): the window is not shown.
NewTerminal == [visible |-> FALSE, is_program_running |-> FALSE]

\* ui::App::new (ui/app.rs, lines 24-31) with an empty channel: queue holds
\* the messages sent by the UI's own threads, each with the number of
\* ProgramStopped messages sent before it; seen counts the ProgramStopped
\* messages received; pc is where the main loop is.
NoUi == [pc |-> "idle", queue |-> <<>>, seen |-> 0, tray |-> NewTray, terminal |-> NewTerminal]

\* The chunks a child writes: an ASCII byte, a two-byte character, an invalid byte.
Chunks == {<<97>>, <<195, 169>>, <<255>>}

\* The handle of child g is held: by the slot, or by start() before keep_child.
Held(g) == slot = g \/ (caller.pc = "start_keep" /\ caller.child = g)

\* What is left of a process once its handle is dropped: nothing can wait
\* for it any more, so a zombie, a reaped and a lost process are the same.
Dropped(p) == IF p.st \in {"running", "interrupted"} THEN p ELSE [p EXCEPT !.st = "gone"]

\* The characters of the command lines.
CmdChars == {" ", "a", "'", "#", "\\"}

RECURSIVE SeqsUpTo(_, _)
SeqsUpTo(S, n) ==
    IF n = 0 THEN {<<>>}
    ELSE LET shorter == SeqsUpTo(S, n - 1)
         IN  shorter \cup {Append(q, x) : q \in {r \in shorter : Len(r) = n - 1}, x \in S}

\* The process exists and has not exited.
Alive(p) == p.st \in {"running", "interrupted"}

\* fn is_running: the slot holds a handle.
is_running(sl) == sl # 0

\* The next child start() spawns.
NextGen == CHOOSE g \in Gens : proc[g].st = "none" /\ \A k \in Gens : k < g => proc[k].st # "none"

\* A Program with a command line of two words, elevation required, and
\* neither input, arguments nor environment.
TwoWords ==
    [command |-> <<"a", " ", "a">>, superuser |-> TRUE, input |-> <<>>,
     args |-> NoTable, env |-> NoTable]

\* The launcher is Launcher::new(&program).
BuiltByNew ==
    /\ command = new(program).command
    /\ superuser = new(program).superuser
    /\ input = InputKind(new(program).input)

\* Launcher::new / test_new: an empty slot, default handlers, nothing
\* spawned; and a UI that has received nothing.
InitTasks ==
    /\ slot = 0
    /\ lock = {}
    /\ proc = [g \in Gens |-> NoProc]
    /\ stream = [g \in Gens |-> [s \in Streams |-> NoStream]]
    /\ outHandler = 0
    /\ statHandler = 0
    /\ stopper = [t \in StopThreads |-> NoStop]
    /\ reader = [g \in Gens |-> [s \in Streams |-> NoReader]]
    /\ poller = [g \in Gens |-> NoPoller]
    /\ notified = [g \in Gens |-> 0]
    /\ stopreq = FALSE
    /\ lastExec = [program |-> <<>>, args |-> <<>>, env |-> NoTable, stdin |-> NoStdin]
    /\ ui = NoUi

\* The Program is given as it is, not read from a file.
Given == file = NoFile /\ loaded = "none"

\* The launcher is built, and its owner has made no call yet.
InitCommon ==
    /\ Given
    /\ InitTasks
    /\ caller = [pc |-> "idle", op |-> "none", child |-> 0, res |-> "none"]

\* A launcher built by Launcher::new for a two-word command.
Init ==
    /\ program = TwoWords
    /\ osEnv = NoTable
    /\ BuiltByNew
    /\ budget = IoStarts
    /\ wbudget = MaxWrites
    /\ InitCommon

\* The same launcher, for the runs of two children without output.
InitCore ==
    /\ program = TwoWords
    /\ osEnv = NoTable
    /\ BuiltByNew
    /\ budget = CoreStarts
    /\ wbudget = 0
    /\ InitCommon

\* The same launcher, for the runs of three children without output.
InitRace ==
    /\ program = TwoWords
    /\ osEnv = NoTable
    /\ BuiltByNew
    /\ budget = MaxStarts
    /\ wbudget = 0
    /\ InitCommon

\* The same launcher, for the runs of two children with output.
InitSinks ==
    /\ program = TwoWords
    /\ osEnv = NoTable
    /\ BuiltByNew
    /\ budget = SinkStarts
    /\ wbudget = SinkWrites
    /\ InitCommon

\* A launcher built for any command line, by either constructor.
InitCmd ==
    /\ command \in SeqsUpTo(CmdChars, MaxCmdLen)
    /\ superuser \in BOOLEAN
    /\ input \in {"none", "some"}
    /\ program = [command |-> command, superuser |-> superuser,
                  input |-> IF input = "none" THEN <<>> ELSE <<<<"a">>>>,
                  args |-> NoTable, env |-> NoTable]
    /\ osEnv = NoTable
    /\ budget = CmdStarts
    /\ wbudget = 0
    /\ InitCommon

\* The environments: of the supervisor's process, and of a Program.
EnvKeys == {"VAR1", "HOME"}
EnvVals == {"x", "y"}
EnvTables == UNION {[S -> EnvVals] : S \in SUBSET EnvKeys}

\* Programs with or without elevation, input and environment.
NewPrograms ==
    {[command |-> <<"a", " ", "a">>, superuser |-> su, input |-> inp,
      args |-> NoTable, env |-> e] :
        su \in BOOLEAN, inp \in {<<>>, << <<"a">> >>}, e \in EnvTables}

\* A launcher built by Launcher::new for any of these Programs, in any
\* environment.
InitNew ==
    /\ program \in NewPrograms
    /\ osEnv \in EnvTables
    /\ BuiltByNew
    /\ budget = NewStarts
    /\ wbudget = 0
    /\ InitCommon

\* The texts with placeholders, and the tables of arguments: the names a
\* and ab, and a value that is itself a placeholder.
ArgChars == {"$", "a", "b", " "}
ArgNames == {<<"a">>, <<"a", "b">>}
ArgVals == {<<"x">>, <<"$", "a">>}
ArgTables == UNION {[S -> ArgVals] : S \in SUBSET ArgNames}

\* Programs with placeholders in the command and in the input.
ArgPrograms ==
    {[command |-> c, superuser |-> FALSE, input |-> inp, args |-> a, env |-> NoTable] :
        c \in SeqsUpTo(ArgChars, ArgTextLen),
        inp \in {<<>>} \cup {<<t>> : t \in SeqsUpTo(ArgChars, ArgInputLen)},
        a \in ArgTables}

\* A Program is parsed, and the launcher is not built yet.
InitArgs ==
    /\ Given
    /\ program \in ArgPrograms
    /\ osEnv = NoTable
    /\ command = <<>>
    /\ superuser = FALSE
    /\ input = "none"
    /\ budget = ArgStarts
    /\ wbudget = 0
    /\ InitTasks
    /\ caller = [pc |-> "new", op |-> "none", child |-> 0, res |-> "none"]

\* The Program before a configuration file is read.
NoProgram ==
    [command |-> <<>>, superuser |-> FALSE, input |-> <<>>, args |-> NoTable, env |-> NoTable]

\* No file or any file of a few lines, before it is read.
InitConf ==
    /\ file \in {NoFile} \cup {<<lines>> : lines \in SeqsUpTo(ConfLines, MaxConfLines)}
    /\ loaded = "none"
    /\ program = NoProgram
    /\ osEnv = NoTable
    /\ command = <<>>
    /\ superuser = FALSE
    /\ input = "none"
    /\ budget = ConfStarts
    /\ wbudget = 0
    /\ InitTasks
    /\ caller = [pc |-> "load", op |-> "none", child |-> 0, res |-> "none"]

\* ui::App::start, ui/app.rs lines 33-39: the launcher built by
\* Launcher::new for a two-word command, with the handlers of
\* LauncherAdapter::start installed, and nothing clicked yet.
InitUi ==
    /\ program = TwoWords
    /\ osEnv = NoTable
    /\ BuiltByNew
    /\ budget = UiStarts
    /\ wbudget = 0
    /\ Given
    /\ slot = 0
    /\ lock = {}
    /\ proc = [g \in Gens |-> NoProc]
    /\ stream = [g \in Gens |-> [s \in Streams |-> NoStream]]
    /\ outHandler = 1
    /\ statHandler = 1
    /\ stopper = [t \in StopThreads |-> NoStop]
    /\ reader = [g \in Gens |-> [s \in Streams |-> NoReader]]
    /\ poller = [g \in Gens |-> NoPoller]
    /\ notified = [g \in Gens |-> 0]
    /\ stopreq = FALSE
    /\ lastExec = [program |-> <<>>, args |-> <<>>, env |-> NoTable, stdin |-> NoStdin]
    /\ caller = [pc |-> "idle", op |-> "none", child |-> 0, res |-> "none"]
    /\ ui = NoUi

(***************************************************************************)
(* The public methods, run by the caller's thread (they take &mut self,    *)
(* so one call at a time).  A step of a thread is one access to state the  *)
(* threads share (the slot, a handler's mutex, a pipe, a process) together *)
(* with the thread-local statements around it.                             *)
(***************************************************************************)

\* The checks of a start() that does not look at the slot; C2 does not hold
\* for it.
StartUnchecked(sl, cmd) ==
    IF SplitCommand(cmd) = <<>> THEN "EmptyCommand" ELSE "spawn"

\* parse_properties_file is called on the configuration file: with a
\* Program the launcher can be built, with an error there is nothing to run.
Load ==
    /\ caller.pc = "load"
    /\ LET r == parse_properties_file(file)
       IN  /\ loaded' = r.kind
           /\ IF r.kind = "Ok"
              THEN program' = r.program /\ caller' = [caller EXCEPT !.pc = "new"]
              ELSE UNCHANGED program /\ caller' = [caller EXCEPT !.pc = "failed"]
    /\ UNCHANGED <<file, osEnv, command, superuser, input, budget, wbudget, slot, lock, proc,
                   stream, outHandler, statHandler, stopper, reader, poller, notified, stopreq,
                   lastExec, ui>>

\* Launcher::new, lines 32-42: the launcher gets the command and the input
\* of the Program, with the arguments put in.
New ==
    /\ caller.pc = "new"
    /\ command' = new(program).command
    /\ superuser' = new(program).superuser
    /\ input' = InputKind(new(program).input)
    /\ caller' = [caller EXCEPT !.pc = "idle"]
    /\ UNCHANGED <<file, loaded, program, osEnv, budget, wbudget, slot, lock, proc, stream,
                   outHandler, statHandler, stopper, reader, poller, notified, stopreq,
                   lastExec, ui>>

\* start(), lines 78-86: what the checks before the spawn decide.
StartDecision(sl, cmd) ==
    IF is_running(sl) THEN "AlreadyRunning"
    ELSE IF SplitCommand(cmd) = <<>> THEN "EmptyCommand"
    ELSE "spawn"

\* A start() that writes the payload to the child's stdin and keeps the pipe
\* open in the handle; C27 does not hold for it.
SeededLeftOpen(payload, n) ==
    IF payload = <<>> THEN [data |-> <<>>, open |-> TRUE]
    ELSE [data |-> SubSeq(payload[1], 1, n), open |-> TRUE]

\* Lines 102-107, the child's stdin pipe after them, when n characters of
\* the payload got written: without a payload the pipe stays open in the
\* handle; with one, the pipe is taken from the handle, written to, and
\* closed when it is dropped at the end of the block (or by the panic).
Seeded(payload, n) ==
    IF payload = <<>> THEN [data |-> <<>>, open |-> TRUE]
    ELSE [data |-> SubSeq(payload[1], 1, n), open |-> FALSE]

\* How much of the payload is written when the spawn and the write come to
\* out: all of it, or less when write_all fails.
WrittenLens(payload, out) ==
    IF payload = <<>> THEN {0}
    ELSE IF out = "ok" THEN {Len(payload[1])}
    ELSE 0..(Len(payload[1]) - 1)

\* Lines 94-107: the OS-level spawn of program e.program with arguments
\* e.args, in the environment of the supervisor with self.env put over it,
\* and n characters of the payload written to its stdin.
Spawned(e, n) ==
    [program |-> e.program, args |-> e.args, env |-> ChildEnv(osEnv, new(program).env),
     stdin |-> Seeded(new(program).input, n)]

\* What spawn and the write of the stdin payload can come to.
SpawnOutcomes == {"ok", "spawn_failed"} \cup (IF input = "some" THEN {"stdin_failed"} ELSE {})

\* Lines 94-112 when the spawn and the write of the payload come to out.
SpawnStep(out) ==
    IF out = "spawn_failed"
    THEN /\ caller' = [caller EXCEPT !.op = "start", !.res = "SpawnFailed"]
         /\ UNCHANGED <<proc, budget, stopreq, lastExec>>
    ELSE /\ proc' = [proc EXCEPT ![NextGen] = [st |-> "running", status |-> "none"]]
         /\ budget' = budget - 1
         /\ \E n \in WrittenLens(new(program).input, out) :
                lastExec' = Spawned(ExecOf(superuser, SplitCommand(command)), n)
         /\ stopreq' = (\E k \in StopThreads : stopper[k].pc # "none")
         /\ caller' = IF out = "ok"
                      THEN [caller EXCEPT !.pc = "start_keep", !.op = "start",
                                          !.child = NextGen, !.res = "none"]
                      ELSE [caller EXCEPT !.pc = "panicked", !.op = "start",
                                          !.res = "none"]

\* start(), lines 77-112: the running check under the slot lock, the split,
\* the spawn with three pipes, the stdin payload (write_all(...).expect
\* panics the caller when it fails), the two output pipes taken and set
\* non-blocking.
StartSpawn ==
    /\ caller.pc = "idle"
    /\ lock = {}
    /\ LET d == StartDecision(slot, command)
       IN  IF d # "spawn"
           THEN /\ caller' = [caller EXCEPT !.op = "start", !.res = d]
                /\ UNCHANGED <<proc, budget, stopreq, lastExec>>
           ELSE /\ budget > 0
                /\ \E out \in SpawnOutcomes : SpawnStep(out)
    /\ UNCHANGED <<config, wbudget, slot, lock, stream, outHandler,
                   statHandler, stopper, reader, poller, notified>>

\* A keep_child that leaves the slot empty; C26 does not hold for it.
KeepNothing(new_child) == 0

\* keep_child, lines 220-223.
keep_child(new_child) == new_child

\* start(), line 115: the handle goes into the slot.
StartKeep ==
    /\ caller.pc = "start_keep"
    /\ lock = {}
    /\ slot' = keep_child(caller.child)
    /\ caller' = [caller EXCEPT !.pc = "start_tasks"]
    /\ UNCHANGED <<config, budget, wbudget, lock, proc, stream, outHandler,
                   statHandler, stopper, reader, poller, notified, stopreq, lastExec>>

\* The handler a task launched by start() holds: a clone of the Arc that is
\* installed at that moment (lines 117, 121, 125).
CapturedHandler(installed) == installed

\* start(), lines 117-129: the three threads, each with clones of the slot
\* and of the handler installed now; then Ok(()).
StartTasks ==
    /\ caller.pc = "start_tasks"
    /\ reader' = [reader EXCEPT ![caller.child] =
                    [s \in Streams |-> [pc |-> "read", h |-> CapturedHandler(outHandler),
                                        text |-> <<>>]]]
    /\ poller' = [poller EXCEPT ![caller.child] =
                    [pc |-> "poll", h |-> CapturedHandler(statHandler), got |-> 0,
                     status |-> "none"]]
    /\ caller' = [pc |-> "idle", op |-> "start", child |-> 0, res |-> "Ok"]
    /\ UNCHANGED <<config, budget, wbudget, slot, lock, proc, stream,
                   outHandler, statHandler, stopper, notified, stopreq, lastExec>>

\* Launcher::is_running, lines 150-152.
CallIsRunning ==
    /\ caller.pc = "idle"
    /\ lock = {}
    /\ caller' = [caller EXCEPT !.op = "is_running",
                                !.res = IF is_running(slot) THEN "true" ELSE "false"]
    /\ UNCHANGED <<config, budget, wbudget, slot, lock, proc, stream,
                   outHandler, statHandler, stopper, reader, poller, notified, stopreq, lastExec>>

\* set_output_handler, lines 59-64: the field gets a new Arc.
SetOutputHandler ==
    /\ caller.pc = "idle"
    /\ outHandler + statHandler < MaxHandlerSets
    /\ outHandler' = outHandler + 1
    /\ UNCHANGED <<config, budget, wbudget, slot, lock, proc, stream,
                   statHandler, caller, stopper, reader, poller, notified, stopreq, lastExec>>

\* set_status_handler, lines 68-73: the field gets a new Arc.
SetStatusHandler ==
    /\ caller.pc = "idle"
    /\ outHandler + statHandler < MaxHandlerSets
    /\ statHandler' = statHandler + 1
    /\ UNCHANGED <<config, budget, wbudget, slot, lock, proc, stream,
                   outHandler, caller, stopper, reader, poller, notified, stopreq, lastExec>>

(***************************************************************************)
(* fn stop, lines 247-296, run by thread t: 0 is the caller (is_async      *)
(* false), k > 0 a stop_async thread (is_async true).                      *)
(***************************************************************************)
\* Stop threads that all run the synchronous path; C17 does not hold for them.
NeverAsync(t) == FALSE

IsAsync(t) == t # 0

\* stop returns r: the thread ends; the caller gets the result of its own call.
Return(t, r) ==
    /\ stopper' = [stopper EXCEPT ![t] = NoStop]
    /\ caller' = IF t = 0 THEN [caller EXCEPT !.pc = "idle", !.op = "stop", !.res = r] ELSE caller

\* A stop that goes for the handle whatever the slot holds; C5 does not hold
\* for it.
StopUnchecked(sl) == "lock"

\* Lines 248-251: with nothing running stop returns Ok, "Already stopped".
StopEntry(sl) == IF is_running(sl) THEN "lock" ELSE "Ok"

\* A thread enters stop: the caller from Launcher::stop (lines 135-137), a
\* stop_async thread once it runs.
Entering(t) == IF t = 0 THEN caller.pc = "idle" ELSE stopper[t].pc = "check"

\* Lines 248-251: the running check, under the slot lock.
StopCheck(t) ==
    /\ Entering(t)
    /\ lock = {}
    /\ IF StopEntry(slot) = "Ok"
       THEN Return(t, "Ok")
       ELSE /\ stopper' = [stopper EXCEPT ![t].pc = "lock"]
            /\ caller' = IF t = 0 THEN [caller EXCEPT !.pc = "stop", !.op = "stop", !.res = "none"]
                         ELSE caller
    /\ stopreq' = (stopreq \/ t = 0)
    /\ UNCHANGED <<config, budget, wbudget, slot, lock, proc, stream,
                   outHandler, statHandler, reader, poller, notified, lastExec>>

\* Launcher::stop_async, lines 142-146: a new thread that will run stop(.., true).
CallStopAsync ==
    /\ caller.pc = "idle"
    /\ \E k \in StopThreads \ {0} :
        /\ stopper[k].pc = "none"
        /\ \A j \in StopThreads \ {0} : j < k => stopper[j].pc # "none"
        /\ stopper' = [stopper EXCEPT ![k] = [pc |-> "check", target |-> 0]]
    /\ stopreq' = TRUE
    /\ UNCHANGED <<config, budget, wbudget, slot, lock, proc, stream,
                   outHandler, statHandler, caller, reader, poller, notified, lastExec>>

\* Launcher::stop_async, lines 142-146, with a note of what the slot held at
\* the call: the thread gets the slot, and asked is what a thread given the
\* handle of the running child would have got.
CallStopAsyncNoting ==
    /\ caller.pc = "idle"
    /\ \E k \in StopThreads \ {0} :
        /\ stopper[k].pc = "none"
        /\ \A j \in StopThreads \ {0} : j < k => stopper[j].pc # "none"
        /\ stopper' = [stopper EXCEPT ![k] = [pc |-> "check", target |-> 0, asked |-> slot]]
    /\ stopreq' = TRUE
    /\ UNCHANGED <<config, budget, wbudget, slot, lock, proc, stream,
                   outHandler, statHandler, caller, reader, poller, notified, lastExec>>

\* Lines 253-255: the slot is locked, and stays so until stop returns; an
\* empty slot is the error "no child pid".
StopLock(t) ==
    /\ stopper[t].pc = "lock"
    /\ lock = {}
    /\ IF slot = 0
       THEN /\ Return(t, "NotFound")
            /\ UNCHANGED lock
       ELSE /\ stopper' = [stopper EXCEPT ![t].pc = "kill", ![t].target = slot]
            /\ lock' = {t}
            /\ UNCHANGED caller
    /\ UNCHANGED <<config, budget, wbudget, slot, proc, stream,
                   outHandler, statHandler, reader, poller, notified, stopreq, lastExec>>

\* Lines 258-269: the program that stop runs to send the interrupt.
KillProgram(is_superuser) == IF is_superuser THEN SUDO_COMMAND ELSE "kill"

\* How the command "kill -INT pid" (through pkexec for a superuser) can end:
\* with code 0 only when the process exists, running or a zombie.
KillOutcomes(p) ==
    IF p.st \in {"running", "interrupted", "zombie"} THEN {"ok", "failed"} ELSE {"failed"}

\* The interrupt reaches a running process.
Interrupted(p) == IF p.st = "running" THEN [p EXCEPT !.st = "interrupted"] ELSE p

\* A stop that returns once the interrupt is delivered, synchronous or not;
\* C4 does not hold for it.
AfterKillNoWait(out, async) == IF out # "ok" THEN "KillFailed" ELSE "Ok"

\* A stop that does not look at how the kill command ended; C13 does not
\* hold for it.
AfterKillAnyCode(out, async) == IF async THEN "Ok" ELSE "wait"

\* Lines 271-284: what follows the kill command.
AfterKill(out, async) ==
    IF out # "ok" THEN "KillFailed"
    ELSE IF async THEN "Ok"
    ELSE "wait"

\* Lines 257-284 when the kill command ends with out.
KillStep(t, out) ==
    LET next == AfterKill(out, IsAsync(t))
    IN  /\ proc' = IF out = "ok"
                   THEN [proc EXCEPT ![stopper[t].target] = Interrupted(@)]
                   ELSE proc
        /\ IF next = "wait"
           THEN /\ stopper' = [stopper EXCEPT ![t].pc = "wait"]
                /\ UNCHANGED <<caller, lock>>
           ELSE /\ Return(t, next)
                /\ lock' = {}

\* Lines 257-284: the kill command runs to its end with the slot locked.
StopKill(t) ==
    /\ stopper[t].pc = "kill"
    /\ \E out \in KillOutcomes(proc[stopper[t].target]) : KillStep(t, out)
    /\ UNCHANGED <<config, budget, wbudget, slot, stream,
                   outHandler, statHandler, reader, poller, notified, stopreq, lastExec>>

\* Lines 286-295: child.wait() returns once the process has exited; then the
\* slot is cleared.  A process that left nothing to wait for is a wait error,
\* returned with the slot as it was.
StopWait(t) ==
    /\ stopper[t].pc = "wait"
    /\ proc[stopper[t].target].st \in {"zombie", "reaped", "lost"}
    /\ IF proc[stopper[t].target].st = "lost"
       THEN /\ Return(t, "WaitFailed")
            /\ UNCHANGED <<slot, proc>>
       ELSE /\ Return(t, "Ok")
            /\ proc' = [proc EXCEPT ![stopper[t].target] = Dropped(@)]
            /\ slot' = 0
    /\ lock' = {}
    /\ UNCHANGED <<config, budget, wbudget, stream,
                   outHandler, statHandler, reader, poller, notified, stopreq, lastExec>>

(***************************************************************************)
(* fn process_status, lines 196-218: the status poller launched for        *)
(* child g.                                                                *)
(***************************************************************************)

\* A wait_child that takes a failed try_wait for a process still running;
\* C16 does not hold for it.
WaitRetry(sl) ==
    IF sl = 0 THEN "NoChild"
    ELSE IF Alive(proc[sl]) \/ proc[sl].st = "lost" THEN "StillRunning"
    ELSE "Exited"

\* wait_child, lines 230-237, on the handle in the slot: try_wait.
wait_child(sl) ==
    IF sl = 0 THEN "NoChild"
    ELSE IF Alive(proc[sl]) THEN "StillRunning"
    ELSE IF proc[sl].st = "lost" THEN "WaitError"
    ELSE "Exited"

\* A forget_child that leaves the slot as it is; C6 does not hold for it.
ForgetNothing == slot

\* forget_child, lines 225-228.
forget_child == 0

\* The mutex of status handler h is free.
StatSinkFree(h) == \A g \in Gens : ~(poller[g].pc = "call" /\ poller[g].h = h)

\* A poller that leaves the loop on an exit without calling the handler;
\* C22 does not hold for it.
ExitUnreported == "forget"

\* Lines 201-205: on Ok(Some(status)) the handler's mutex is taken and the
\* handler is called, before the break.
OnExit == "locksink"

\* Lines 200-215: one poll that ends the loop (a poll of a running process
\* sleeps and polls again, and changes nothing).
PollerPoll(g) ==
    /\ poller[g].pc = "poll"
    /\ lock = {}
    /\ wait_child(slot) # "StillRunning"
    /\ IF wait_child(slot) = "Exited"
       THEN /\ proc' = [proc EXCEPT ![slot].st = "reaped"]
            /\ poller' = [poller EXCEPT ![g].pc = OnExit, ![g].got = slot,
                                        ![g].status = proc[slot].status]
       ELSE /\ poller' = [poller EXCEPT ![g].pc = "forget"]
            /\ UNCHANGED proc
    /\ UNCHANGED <<config, budget, wbudget, slot, lock, stream, outHandler,
                   statHandler, caller, stopper, reader, notified, stopreq, lastExec>>

\* Lines 203-204: the handler's mutex is taken and the handler is called.
PollerCall(g) ==
    /\ poller[g].pc = "locksink"
    /\ StatSinkFree(poller[g].h)
    /\ poller' = [poller EXCEPT ![g].pc = "call"]
    /\ notified' = [notified EXCEPT ![poller[g].got] = @ + 1]
    /\ UNCHANGED <<config, budget, wbudget, slot, lock, proc, stream,
                   outHandler, statHandler, caller, stopper, reader, stopreq, lastExec>>

\* Line 205: the handler returns, its mutex is released, the loop ends.
PollerReturn(g) ==
    /\ poller[g].pc = "call"
    /\ poller' = [poller EXCEPT ![g].pc = "forget", ![g].status = "none"]
    /\ UNCHANGED <<config, budget, wbudget, slot, lock, proc, stream,
                   outHandler, statHandler, caller, stopper, reader, notified, stopreq, lastExec>>

\* Line 217: forget_child, then the thread ends.
PollerForget(g) ==
    /\ poller[g].pc = "forget"
    /\ lock = {}
    /\ slot' = forget_child
    /\ proc' = IF slot = 0 THEN proc ELSE [proc EXCEPT ![slot] = Dropped(@)]
    /\ poller' = [poller EXCEPT ![g] = [NoPoller EXCEPT !.pc = "done"]]
    /\ UNCHANGED <<config, budget, wbudget, lock, stream,
                   outHandler, statHandler, caller, stopper, reader, notified, stopreq, lastExec>>

(***************************************************************************)
(* fn process_output, lines 164-194: the reader of stream s of child g.    *)
(* Only this thread reads the pipe, so a read is taken together with the   *)
(* shared access that follows it: the handler's mutex after bytes, the     *)
(* slot after zero bytes or an error.                                      *)
(***************************************************************************)

\* reader.read(&mut buf) on the non-blocking pipe: bytes when there are some,
\* zero at end of file (the child has exited), would-block otherwise.
ReadResult(g, s) ==
    IF stream[g][s] # <<>> THEN "Data"
    ELSE IF Alive(proc[g]) THEN "WouldBlock"
    ELSE "Eof"

\* A reader that passes every read to the handler, that of zero bytes too;
\* C9 does not hold for it.
DeliversAny(n) == n >= 0

\* Lines 171-180: whether a read that returned n bytes is passed to the handler.
Delivers(n) == n > 0

\* Output and status handlers behind one mutex; C28 does not hold for it.
OneLockForSinks(h) ==
    /\ \A g \in Gens, s \in Streams : ~(reader[g][s].pc = "call" /\ reader[g][s].h = h)
    /\ \A g \in Gens : poller[g].pc # "call"

\* An output handler without a mutex; C18 does not hold for it.
AlwaysFree(h) == TRUE

\* The mutex of output handler h is free.
OutSinkFree(h) == \A g \in Gens, s \in Streams : ~(reader[g][s].pc = "call" /\ reader[g][s].h = h)

\* Lines 189-192 after a read of zero bytes or a read error: the loop ends
\* when the slot is empty, and the thread drops its end of the pipe.
ReaderLiveness(g, s) ==
    IF ~is_running(slot)
    THEN /\ reader' = [reader EXCEPT ![g][s] = [NoReader EXCEPT !.pc = "done"]]
         /\ stream' = [stream EXCEPT ![g][s] = NoStream]
    ELSE UNCHANGED <<reader, stream>>

\* A reader that looks at the slot before it delivers, and gives up the
\* bytes it read once the slot is empty; C23 does not hold for it.
DrainsWhileRunning(sl) == is_running(sl)

\* Lines 174-180: bytes that were read go to the handler whatever the slot
\* holds; the loop continues without the liveness check.
Drains(sl) == TRUE

\* Lines 170-180 and 189-192: a read; bytes go to the handler, decoded, and
\* zero bytes lead to the liveness check (a would-block read sleeps 100 ms
\* and reads again, and changes nothing).
ReaderRead(g, s) ==
    /\ reader[g][s].pc = "read"
    /\ ReadResult(g, s) # "WouldBlock"
    /\ LET n == Min(Len(stream[g][s]), ReadBufLen)
       IN  IF Delivers(n) /\ Drains(slot)
           THEN /\ OutSinkFree(reader[g][s].h)
                /\ stream' = [stream EXCEPT ![g][s] = SubSeq(@, n + 1, Len(@))]
                /\ reader' = [reader EXCEPT ![g][s].pc = "call",
                                            ![g][s].text = Utf8Lossy(SubSeq(stream[g][s], 1, n))]
           ELSE /\ lock = {}
                /\ ReaderLiveness(g, s)
    /\ UNCHANGED <<config, budget, wbudget, slot, lock, proc, outHandler,
                   statHandler, caller, stopper, poller, notified, stopreq, lastExec>>

\* Lines 185-192: a read error other than would-block is logged, and the
\* liveness check follows.
ReaderReadError(g, s) ==
    /\ reader[g][s].pc = "read"
    /\ lock = {}
    /\ ReaderLiveness(g, s)
    /\ UNCHANGED <<config, budget, wbudget, slot, lock, proc, outHandler,
                   statHandler, caller, stopper, poller, notified, stopreq, lastExec>>

\* Line 179: the handler returns, its mutex is released, the loop reads again.
ReaderReturn(g, s) ==
    /\ reader[g][s].pc = "call"
    /\ reader' = [reader EXCEPT ![g][s].pc = "read", ![g][s].text = <<>>]
    /\ UNCHANGED <<config, budget, wbudget, slot, lock, proc, stream,
                   outHandler, statHandler, caller, stopper, poller, notified, stopreq, lastExec>>

(***************************************************************************)
(* The child processes.                                                    *)
(***************************************************************************)

\* A running child writes a chunk to one of its output pipes.
ProcWrite(g, s) ==
    /\ Alive(proc[g])
    /\ reader[g][s].pc # "done"
    /\ wbudget > 0
    /\ wbudget' = wbudget - 1
    /\ \E c \in Chunks : stream' = [stream EXCEPT ![g][s] = @ \o c]
    /\ UNCHANGED <<config, budget, slot, lock, proc, outHandler,
                   statHandler, caller, stopper, reader, poller, notified, stopreq, lastExec>>

\* A child exits, on its own or on the interrupt, and stays a zombie until
\* it is waited for.
ProcExit(g) ==
    /\ Alive(proc[g])
    /\ LET exited == [st |-> "zombie",
                      status |-> IF proc[g].st = "interrupted" THEN "sigint" ELSE "exit0"]
       IN  proc' = [proc EXCEPT ![g] = IF Held(g) THEN exited ELSE Dropped(exited)]
    /\ UNCHANGED <<config, budget, wbudget, slot, lock, stream, outHandler,
                   statHandler, caller, stopper, reader, poller, notified, stopreq, lastExec>>

\* A child exits and the system reaps it (SIGCHLD ignored): nothing is left
\* to wait for, and try_wait and wait fail.
ProcLost(g) ==
    /\ Alive(proc[g])
    /\ LET lost == [st |-> "lost", status |-> "none"]
       IN  proc' = [proc EXCEPT ![g] = IF Held(g) THEN lost ELSE Dropped(lost)]
    /\ UNCHANGED <<config, budget, wbudget, slot, lock, stream, outHandler,
                   statHandler, caller, stopper, reader, poller, notified, stopreq, lastExec>>

(***************************************************************************)
(* The UI, src/src/ui.  One channel carries the messages of component.rs   *)
(* to the main loop, which hands each message to the tray, the terminal    *)
(* and the launcher adapter, in that order.  The Quit item ends the        *)
(* application and is left out.                                            *)
(***************************************************************************)

\* component.rs, lines 5-21: the messages, but for ProgramOutput.
TrayMenu(action) == [kind |-> "TrayMenu", action |-> action]
Terminal(action) == [kind |-> "Terminal", action |-> action]
ProgramStopped == [kind |-> "ProgramStopped", action |-> "none"]

\* Tray::on_program_started, ui/tray.rs lines 98-102.
on_program_started(t) ==
    [t EXCEPT !.item_run.text = "Stop", !.icon = "on", !.is_running = TRUE]

\* Tray::on_program_stopped, ui/tray.rs lines 104-108.
on_program_stopped(t) ==
    [t EXCEPT !.item_run.text = "Start", !.icon = "off", !.is_running = FALSE]

\* Tray::toggle_running, ui/tray.rs lines 89-96.
toggle_running(t) ==
    IF t.is_running THEN [t EXCEPT !.item_run.enabled = FALSE] ELSE on_program_started(t)

\* Tray::switch_terminal_visibility, ui/tray.rs lines 118-125.
switch_terminal_visibility(t, visible) ==
    [t EXCEPT !.item_show.text = IF visible THEN "Hide" ELSE "Show", !.is_shown = visible]

\* Tray::toggle_terminal_visibility, ui/tray.rs lines 114-116.
toggle_terminal_visibility(t) == switch_terminal_visibility(t, ~t.is_running)

\* Tray::on_terminal_action, ui/tray.rs lines 83-87.
on_terminal_action(t, action) ==
    switch_terminal_visibility(t, CASE action = "HIDE" -> FALSE)

\* Tray::on_action_selected, ui/tray.rs lines 74-81.
on_action_selected(t, action) ==
    CASE action = "RUN" -> toggle_running(t)
      [] action = "VISIBILITY" -> toggle_terminal_visibility(t)
      [] OTHER -> t

\* Tray::on_message_received, ui/tray.rs lines 41-48.
tray_on_message_received(t, msg) ==
    CASE msg.kind = "TrayMenu" -> on_action_selected(t, msg.action)
      [] msg.kind = "Terminal" -> on_terminal_action(t, msg.action)
      [] msg.kind = "ProgramStopped" -> on_program_stopped(t)
      [] OTHER -> t

\* Terminal::on_tray_menu_selected, ui/terminal.rs lines 84-101 (the text
\* buffer, cleared on a start, is left out).
on_tray_menu_selected(w, action) ==
    CASE action = "RUN" ->
            IF ~w.is_program_running THEN [w EXCEPT !.is_program_running = TRUE] ELSE w
      [] action = "VISIBILITY" -> [w EXCEPT !.visible = ~w.visible]
      [] OTHER -> w

\* Terminal::on_program_stopped, ui/terminal.rs lines 103-107.
terminal_on_program_stopped(w) == [w EXCEPT !.is_program_running = FALSE]

\* Terminal::on_message_received, ui/terminal.rs lines 25-32.
terminal_on_message_received(w, msg) ==
    CASE msg.kind = "TrayMenu" -> on_tray_menu_selected(w, msg.action)
      [] msg.kind = "ProgramStopped" -> terminal_on_program_stopped(w)
      [] OTHER -> w

\* How many ProgramStopped messages the status handler installed by
\* LauncherAdapter::start (ui/adapter.rs, lines 27-29) has sent: one for
\* each invocation.
RECURSIVE SentUpTo(_)
SentUpTo(g) == IF g = 0 THEN 0 ELSE notified[g] + SentUpTo(g - 1)

Sent == SentUpTo(MaxStarts)

\* tx.send(msg) by a thread of the UI: the message goes behind those in the
\* channel.
Send(u, msg) == [u EXCEPT !.queue = Append(@, [msg |-> msg, after |-> Sent])]

\* The channel is first in, first out: the next message is a ProgramStopped
\* when one was sent before every message waiting in queue.
StoppedIsNext ==
    /\ ui.seen < Sent
    /\ IF ui.queue = <<>> THEN TRUE ELSE ui.queue[1].after > ui.seen

\* The next message is msg, sent by a thread of the UI.
QueuedIsNext(msg) ==
    IF ui.queue = <<>> THEN FALSE
    ELSE ui.queue[1].after <= ui.seen /\ ui.queue[1].msg = msg

\* All messages sent so far have been received, and the main loop is idle.
AllReceived == ui.pc = "idle" /\ ui.queue = <<>> /\ ui.seen = Sent

\* Nothing but the UI changes.
LauncherUnchanged ==
    UNCHANGED <<file, loaded, program, osEnv, command, superuser, input, budget, wbudget,
                slot, lock, proc, stream, outHandler, statHandler, caller, stopper, reader,
                poller, notified, stopreq, lastExec>>

\* The user selects Start/Stop in the tray menu, which an enabled item
\* allows: the thread of Tray::start (ui/tray.rs, lines 28-38) sends
\* TrayMenu(RUN).
ClickRun ==
    /\ ui.pc # "panicked"
    /\ ui.tray.item_run.enabled
    /\ Len(ui.queue) < MaxPending
    /\ ui' = Send(ui, TrayMenu("RUN"))
    /\ LauncherUnchanged

\* The user selects Show/Hide in the tray menu.
ClickVisibility ==
    /\ ui.pc # "panicked"
    /\ Len(ui.queue) < MaxPending
    /\ ui' = Send(ui, TrayMenu("VISIBILITY"))
    /\ LauncherUnchanged

\* Terminal::connect_close_event, ui/terminal.rs lines 148-155: the Close
\* button of the visible window, handled by the main loop between two
\* messages: the window is hidden and Terminal(HIDE) is sent.
ClickClose ==
    /\ ui.pc = "idle"
    /\ ui.terminal.visible
    /\ Len(ui.queue) < MaxPending
    /\ ui' = Send([ui EXCEPT !.terminal.visible = FALSE], Terminal("HIDE"))
    /\ LauncherUnchanged

\* ui::App::start, ui/app.rs lines 40-46: the main loop hands msg to the
\* tray and to the terminal; the adapter comes next, and has work to do on
\* TrayMenu(RUN) only (ui/adapter.rs, lines 32-50).
Handled(u, msg) ==
    [u EXCEPT !.tray = tray_on_message_received(@, msg),
              !.terminal = terminal_on_message_received(@, msg),
              !.pc = IF msg = TrayMenu("RUN") THEN "adapter" ELSE "idle"]

\* The main loop takes msg, sent by a thread of the UI, from the channel
\* and handles it.
Received(msg) == Handled([ui EXCEPT !.queue = Tail(@)], msg)

\* The main loop receives TrayMenu(RUN).
ReceiveRun ==
    /\ ui.pc = "idle"
    /\ QueuedIsNext(TrayMenu("RUN"))
    /\ ui' = Received(TrayMenu("RUN"))
    /\ LauncherUnchanged

\* The main loop receives TrayMenu(VISIBILITY).
ReceiveVisibility ==
    /\ ui.pc = "idle"
    /\ QueuedIsNext(TrayMenu("VISIBILITY"))
    /\ ui' = Received(TrayMenu("VISIBILITY"))
    /\ LauncherUnchanged

\* The main loop receives Terminal(HIDE).
ReceiveHide ==
    /\ ui.pc = "idle"
    /\ QueuedIsNext(Terminal("HIDE"))
    /\ ui' = Received(Terminal("HIDE"))
    /\ LauncherUnchanged

\* The main loop receives a ProgramStopped sent by the status handler.
ReceiveStopped ==
    /\ ui.pc = "idle"
    /\ StoppedIsNext
    /\ ui' = Handled([ui EXCEPT !.seen = @ + 1], ProgramStopped)
    /\ LauncherUnchanged

\* ui/adapter.rs line 38: launcher.is_running() decides between start()
\* and stop_async().
AdapterIsRunning ==
    /\ ui.pc = "adapter"
    /\ lock = {}
    /\ ui' = [ui EXCEPT !.pc = IF ~is_running(slot) THEN "start" ELSE "stop_async"]
    /\ LauncherUnchanged

\* ui/adapter.rs line 39: launcher.start() is called.
AdapterStart ==
    /\ ui.pc = "start"
    /\ caller.op # "start"
    /\ StartSpawn

\* ui/adapter.rs line 39: start() has returned, and unwrap() panics the
\* main loop on an error.
AdapterStarted ==
    /\ ui.pc = "start"
    /\ caller.pc = "idle"
    /\ caller.op = "start"
    /\ ui' = [ui EXCEPT !.pc = IF caller.res = "Ok" THEN "idle" ELSE "panicked"]
    /\ caller' = [caller EXCEPT !.op = "none", !.res = "none"]
    /\ UNCHANGED <<file, loaded, program, osEnv, command, superuser, input, budget, wbudget,
                   slot, lock, proc, stream, outHandler, statHandler, stopper, reader,
                   poller, notified, stopreq, lastExec>>

\* ui/adapter.rs line 41: launcher.stop_async() (launcher.rs, lines
\* 142-146) launches its thread and returns.
AdapterStopAsync ==
    /\ ui.pc = "stop_async"
    /\ \E k \in StopThreads \ {0} :
        /\ stopper[k].pc = "none"
        /\ \A j \in StopThreads \ {0} : j < k => stopper[j].pc # "none"
        /\ stopper' = [stopper EXCEPT ![k] = [pc |-> "check", target |-> 0]]
    /\ stopreq' = TRUE
    /\ ui' = [ui EXCEPT !.pc = "idle"]
    /\ UNCHANGED <<file, loaded, program, osEnv, command, superuser, input, budget, wbudget,
                   slot, lock, proc, stream, outHandler, statHandler, caller, reader,
                   poller, notified, lastExec>>

(***************************************************************************)
(* The specifications.                                                     *)
(***************************************************************************)
\* The steps of start(), of the synchronous stop(), of the tasks and of
\* children that exit.
NextSync ==
    \/ StartSpawn
    \/ StartKeep
    \/ StartTasks
    \/ \E t \in StopThreads : StopCheck(t)
    \/ \E t \in StopThreads : StopLock(t)
    \/ \E t \in StopThreads : StopKill(t)
    \/ \E t \in StopThreads : StopWait(t)
    \/ \E g \in Gens : PollerPoll(g)
    \/ \E g \in Gens : PollerCall(g)
    \/ \E g \in Gens : PollerReturn(g)
    \/ \E g \in Gens : PollerForget(g)
    \/ \E g \in Gens, s \in Streams : ReaderRead(g, s)
    \/ \E g \in Gens : ProcExit(g)

\* The steps of the supervisor without output and without handler changes.
NextCore ==
    \/ NextSync
    \/ CallStopAsync
    \/ CallIsRunning
    \/ \E g \in Gens, s \in Streams : ReaderReadError(g, s)
    \/ \E g \in Gens : ProcLost(g)

\* All steps: also the children's output and the handler setters.
Next ==
    \/ NextCore
    \/ SetOutputHandler
    \/ SetStatusHandler
    \/ \E g \in Gens, s \in Streams : ReaderReturn(g, s)
    \/ \E g \in Gens, s \in Streams : ProcWrite(g, s)

\* The steps of start(), of the synchronous stop(), of the tasks and of
\* children that write and exit.
NextSinks ==
    \/ NextSync
    \/ \E g \in Gens, s \in Streams : ReaderReturn(g, s)
    \/ \E g \in Gens, s \in Streams : ProcWrite(g, s)

\* The steps of start(), stop() and stop_async(), of the tasks and of
\* children that exit, with a note of what each stop_async() call found.
NextAsync ==
    \/ NextSync
    \/ CallStopAsyncNoting

\* The steps of the UI: the user's clicks, the main loop, the calls of the
\* adapter, and the threads and children of the launcher.
NextUi ==
    \/ ClickRun
    \/ ClickVisibility
    \/ ClickClose
    \/ ReceiveRun
    \/ ReceiveVisibility
    \/ ReceiveHide
    \/ ReceiveStopped
    \/ AdapterIsRunning
    \/ AdapterStart
    \/ StartKeep
    \/ StartTasks
    \/ AdapterStarted
    \/ AdapterStopAsync
    \/ \E t \in StopThreads \ {0} : StopCheck(t)
    \/ \E t \in StopThreads \ {0} : StopLock(t)
    \/ \E t \in StopThreads \ {0} : StopKill(t)
    \/ \E g \in Gens : PollerPoll(g)
    \/ \E g \in Gens : PollerCall(g)
    \/ \E g \in Gens : PollerReturn(g)
    \/ \E g \in Gens : PollerForget(g)
    \/ \E g \in Gens, s \in Streams : ReaderRead(g, s)
    \/ \E g \in Gens : ProcExit(g)

\* One child, with output and handler changes.
Spec == Init /\ [][Next]_vars

\* Two children.
SpecCore == InitCore /\ [][NextCore]_vars

\* Three children, started and stopped synchronously.
SpecRace == InitRace /\ [][NextSync]_vars

\* Every command line, one child.
SpecCmd == InitCmd /\ [][NextCore]_vars

\* Two children, stopped by stop() and stop_async().
SpecAsync == InitCore /\ [][NextAsync]_vars

\* The UI, with two children.
SpecUi == InitUi /\ [][NextUi]_vars

\* Two children with output, started and stopped synchronously.
SpecSinks == InitSinks /\ [][NextSinks]_vars

\* The steps from the Program to a started child.
NextArgs ==
    \/ New
    \/ StartSpawn
    \/ StartKeep
    \/ StartTasks

\* Any Program with placeholders, built and started once.
SpecArgs == InitArgs /\ [][NextArgs]_vars

\* Any Program in any environment, one child.
SpecNew == InitNew /\ [][NextCore]_vars

\* The steps from the configuration file to a started child.
NextConf ==
    \/ Load
    \/ NextArgs

\* Any configuration file, read, built and started once.
SpecConf == InitConf /\ [][NextConf]_vars

\* A child that has got the interrupt exits on it.
ExitOnInterrupt(g) == proc[g].st = "interrupted" /\ ProcExit(g)

\* Fair scheduling: a call under way and a thread that start() or
\* stop_async() has launched go on; a status poller gets the slot's lock in
\* the end when the lock is free again and again; an interrupted child
\* exits.  The caller is not bound to make any call.
Fairness ==
    /\ WF_vars(StartKeep)
    /\ WF_vars(StartTasks)
    /\ \A t \in StopThreads \ {0} : WF_vars(StopCheck(t)) /\ WF_vars(StopLock(t))
    /\ \A t \in StopThreads : WF_vars(StopKill(t)) /\ WF_vars(StopWait(t))
    /\ \A g \in 1..CoreStarts : SF_vars(PollerPoll(g)) /\ SF_vars(PollerForget(g))
    /\ \A g \in 1..CoreStarts : WF_vars(PollerCall(g)) /\ WF_vars(PollerReturn(g))
    /\ \A g \in 1..CoreStarts : WF_vars(ExitOnInterrupt(g))

\* Two children, fairly scheduled.
FairCore == SpecCore /\ Fairness

\* Fair scheduling of the stream readers: a reader whose read returns
\* something other than would-block goes on.
ReaderFairness == \A g \in 1..CoreStarts, s \in Streams : WF_vars(ReaderRead(g, s))

\* A synchronous stop() under way goes on to take the slot's lock.
CallFairness == WF_vars(StopLock(0))

\* Two children; the tasks, the readers and a call under way fairly
\* scheduled.
FairReaders == FairCore /\ ReaderFairness /\ CallFairness

(***************************************************************************)
(* The claims.                                                             *)
(***************************************************************************)

\* The children that run.
AliveChildren == {g \in Gens : Alive(proc[g])}

\* C1: in every reachable state at most one child spawned by the launcher
\* is alive: start() never spawns a child while an earlier one still runs.
C1_AtMostOneChildAlive == Cardinality(AliveChildren) <= 1
\* What start(), stop() and the tasks work on: the slot, the processes, the
\* tasks and the pipes.
Supervision == <<slot, lock, proc, stream, stopper, reader, poller, notified, budget>>

\* C2: a start() made while the slot is occupied returns AlreadyRunning and
\* changes nothing: no process is spawned, no task is launched, the slot
\* holds the handle it held and is_running() stays true.
C2_StartWhileRunning ==
    [][(StartSpawn /\ is_running(slot)) =>
          /\ caller'.pc = "idle"
          /\ caller'.res = "AlreadyRunning"
          /\ is_running(slot')
          /\ UNCHANGED Supervision]_vars

\* start() has failed with AlreadyRunning and the child it met still runs.
C2_Witness ==
    /\ caller.op = "start"
    /\ caller.res = "AlreadyRunning"
    /\ is_running(slot)
    /\ Alive(proc[slot])

\* The shell-word splitting of the command line gives no token at all.
ZeroTokens(cmd) ==
    LET r == ShlexWords(cmd, 1, <<>>)
    IN  ~r.err /\ r.words = <<>>

\* C3: for every command line that splits into zero tokens, start() returns
\* EmptyCommand, spawns no process, launches no task and leaves the slot
\* empty.
C3_EmptyCommand ==
    [][(StartSpawn /\ ~is_running(slot) /\ ZeroTokens(command)) =>
          /\ caller'.pc = "idle"
          /\ caller'.res = "EmptyCommand"
          /\ ~is_running(slot')
          /\ UNCHANGED Supervision]_vars

\* start() has failed with EmptyCommand on a command line of blanks or of a
\* comment, and no process exists.
C3_Witness ==
    /\ Len(command) = MaxCmdLen
    /\ ZeroTokens(command)
    /\ caller.op = "start"
    /\ caller.res = "EmptyCommand"
    /\ \A g \in Gens : proc[g].st = "none"

\* C4: when the synchronous stop() that found the slot occupied returns Ok,
\* the process it interrupted has exited and been waited for, and the slot
\* is empty.
C4_SyncStopSuccess ==
    [][(caller.pc = "stop" /\ caller'.pc = "idle" /\ caller'.res = "Ok") =>
          /\ stopper[0].target # 0
          /\ proc'[stopper[0].target].st = "gone"
          /\ ~is_running(slot')]_vars

\* stop() has returned Ok for the first child, which was running, got the
\* interrupt and exited on it, before its status poller saw anything.
C4_Witness ==
    /\ caller = [pc |-> "idle", op |-> "stop", child |-> 0, res |-> "Ok"]
    /\ proc[1] = [st |-> "gone", status |-> "sigint"]
    /\ proc[2].st = "none"
    /\ poller[1].pc = "poll"
    /\ ~is_running(slot)

\* C5: a synchronous stop() made while the slot is empty returns Ok, issues
\* no kill command and leaves the slot empty, however often it is repeated.
C5_StopWhenIdle ==
    [][(StopCheck(0) /\ ~is_running(slot)) =>
          /\ caller'.pc = "idle"
          /\ caller'.res = "Ok"
          /\ ~is_running(slot')
          /\ UNCHANGED Supervision]_vars

\* stop() has returned Ok on a launcher that never started anything.
C5_Witness ==
    /\ caller = [pc |-> "idle", op |-> "stop", child |-> 0, res |-> "Ok"]
    /\ \A g \in Gens : proc[g].st = "none"
    /\ ~is_running(slot)

\* C6: under fair scheduling, once the interrupt of a stop has reached the
\* child in the slot and the child exits on it, is_running() becomes false.
C6_AsyncStopEnds ==
    \A g \in Gens : (slot = g /\ proc[g].st = "interrupted") ~> ~is_running(slot)

\* stop_async() has returned and its thread has delivered the interrupt and
\* ended, and is_running() is still true.
C6_Witness ==
    /\ \A t \in StopThreads : stopper[t].pc = "none"
    /\ caller.pc = "idle"
    /\ stopreq
    /\ is_running(slot)
    /\ proc[slot].st = "interrupted"

\* No status poller is at work, and the caller is between two calls.
Quiet ==
    /\ caller.pc = "idle"
    /\ \A g \in Gens : poller[g].pc \in {"none", "done"}

\* Child g is the last one spawned, and it exited on its own: no stop was
\* requested since it was spawned and none was under way then.
ExitedOnItsOwn(g) ==
    /\ proc[g] = [st |-> "gone", status |-> "exit0"]
    /\ \A k \in Gens : k > g => proc[k].st = "none"
    /\ ~stopreq

\* C7: once a child that exited on its own, with no stop requested, has
\* left no status poller at work, a status sink has been invoked with its
\* exit status and is_running() is false.
C7_ExitReported ==
    \A g \in Gens : (Quiet /\ ExitedOnItsOwn(g)) => (notified[g] >= 1 /\ ~is_running(slot))

\* start() has put the handle of child g into the slot.
Installed(g) == poller[g].pc # "none" \/ (caller.pc = "start_tasks" /\ caller.child = g)

\* C8: in every reachable state the slot holds the handle of every child
\* that start() has installed and that has not exited: the slot is never
\* cleared, nor given to another child, while its process still runs.
C8_SlotHoldsRunning ==
    \A g \in Gens : (Installed(g) /\ Alive(proc[g])) => slot = g

\* C9: an output sink is never invoked with empty text: the text of every
\* invocation under way is the decoding of at least one byte.
C9_NoEmptyOutput ==
    \A g \in Gens, s \in Streams : reader[g][s].pc = "call" => Len(reader[g][s].text) >= 1

\* An output sink is being invoked with the decoding of one invalid byte.
C9_Witness ==
    \E g \in Gens, s \in Streams :
        reader[g][s].pc = "call" /\ reader[g][s].text = <<ReplacementChar>>

\* C10: every invocation of a sink goes to the sink installed at that
\* moment: an output chunk or an exit status delivered after a replacement
\* goes to the newly installed sink, not to the previous one.
C10_ReplacedSinkUsed ==
    [][/\ \A g \in Gens, s \in Streams :
            (reader[g][s].pc # "call" /\ reader'[g][s].pc = "call")
                => reader'[g][s].h = outHandler
       /\ \A g \in Gens :
            (poller[g].pc # "call" /\ poller'[g].pc = "call") => poller'[g].h = statHandler]_vars

\* C11: no thread holds the lock of the slot while it runs the kill
\* command or waits for the child to exit: the stop paths, like the readers
\* and the poller, keep the lock only for the check or set of the handle.
C11_LockOnlyForHandle ==
    \A t \in StopThreads : stopper[t].pc \in {"kill", "wait"} => t \notin lock

\* C12: is_running() and start() never wait: whatever the other threads
\* do, a call of is_running() can take its step, a start() on an
\* occupied slot can return, and a start() that has spawned its child can
\* install the handle.  (stop_async() only launches a thread.)
C12_CallsNeverWait ==
    /\ caller.pc = "idle" => ENABLED CallIsRunning
    /\ (caller.pc = "idle" /\ is_running(slot)) => ENABLED StartSpawn
    /\ caller.pc = "start_keep" => ENABLED StartKeep

\* C13: when the kill command of a synchronous stop() does not end with
\* code 0, stop() returns the error at once, without waiting for the child,
\* and the slot still holds the same handle.
C13_KillFailureReturned ==
    [][(StopKill(0) /\ KillStep(0, "failed")) =>
          /\ caller'.pc = "idle"
          /\ caller'.res = "KillFailed"
          /\ slot' = stopper[0].target
          /\ is_running(slot')
          /\ UNCHANGED <<slot, proc, notified>>]_vars

\* stop() has returned the failure of the kill command, and the child it
\* was to stop still runs and is still in the slot.
C13_Witness ==
    /\ caller = [pc |-> "idle", op |-> "stop", child |-> 0, res |-> "KillFailed"]
    /\ is_running(slot)
    /\ Alive(proc[slot])
    /\ stopper[0] = NoStop

\* C14: the child is spawned through the elevation helper, with all the
\* tokens as its arguments, if and only if the Program requires elevation;
\* otherwise the first token is the program and the other tokens are its
\* arguments.  The interrupt goes through the helper in the same case.
C14_HelperIffElevation ==
    lastExec.program # <<>> =>
        IF need_superuser(program)
        THEN /\ lastExec.program = <<SUDO_COMMAND>>
             /\ lastExec.args = SplitCommand(command)
             /\ KillProgram(superuser) = SUDO_COMMAND
        ELSE /\ lastExec.program = Head(SplitCommand(command))
             /\ lastExec.args = Tail(SplitCommand(command))
             /\ KillProgram(superuser) = "kill"

\* C15: when the write of the stdin payload fails, start() returns the
\* error StdinWriteFailed to its caller, installs no handle and launches
\* no task.
C15_StdinFailureReturned ==
    [][(StartSpawn /\ SpawnStep("stdin_failed")) =>
          /\ caller'.pc = "idle"
          /\ caller'.res = "StdinWriteFailed"
          /\ UNCHANGED <<slot, reader, poller>>]_vars

\* C16: a status poller whose exit check fails with a wait error ends its
\* loop without invoking a status sink, and under fair scheduling the slot
\* of a child whose exit cannot be waited for is cleared: is_running()
\* becomes false.
C16_WaitErrorClears ==
    /\ [][\A g \in Gens :
            (PollerPoll(g) /\ wait_child(slot) = "WaitError")
                => (poller'[g].pc = "forget" /\ UNCHANGED notified)]_vars
    /\ \A g \in Gens : (slot = g /\ proc[g].st = "lost") ~> ~is_running(slot)

\* The first child could not be waited for: its poller ended without a
\* notification, and a later start() has succeeded.
C16_Witness ==
    /\ proc[1] = [st |-> "gone", status |-> "none"]
    /\ poller[1].pc = "done"
    /\ notified[1] = 0
    /\ slot = 2
    /\ Alive(proc[2])
    /\ caller = [pc |-> "idle", op |-> "start", child |-> 0, res |-> "Ok"]

\* C17: a stop_async thread only delivers the interrupt: none of its steps
\* clears the slot, waits for the child or invokes a status sink; the
\* status is reported by a step of a status poller.
C17_AsyncStopOnlySignals ==
    /\ [][\A t \in StopThreads \ {0} :
            (StopCheck(t) \/ StopLock(t) \/ StopKill(t) \/ StopWait(t))
                => (UNCHANGED <<slot, notified>> /\ stopper'[t].pc # "wait")]_vars
    /\ [][notified' # notified => \E g \in Gens : PollerCall(g)]_vars

\* After a start() and a stop_async() the child has exited on the
\* interrupt, and its status poller has reported the exit and has cleared
\* the slot.
C17_Witness ==
    /\ caller = [pc |-> "idle", op |-> "start", child |-> 0, res |-> "Ok"]
    /\ proc[1] = [st |-> "gone", status |-> "sigint"]
    /\ proc[2].st = "none"
    /\ notified[1] = 1
    /\ poller[1].pc = "done"
    /\ ~is_running(slot)

\* The handlers that can be installed in one run.
Handlers == 0..MaxHandlerSets

\* C18: each sink has at most one invocation under way: no two stream
\* readers are in the same output handler at once, and no two status
\* pollers are in the same status handler at once.
C18_OneInvocationPerSink ==
    /\ \A h \in Handlers :
          Cardinality({gs \in Gens \X Streams :
                          reader[gs[1]][gs[2]].pc = "call" /\ reader[gs[1]][gs[2]].h = h}) <= 1
    /\ \A h \in Handlers :
          Cardinality({g \in Gens : poller[g].pc = "call" /\ poller[g].h = h}) <= 1

\* The stdout reader of a child is in the output handler while its stderr
\* reader has bytes to deliver to the same handler.
C18_Witness ==
    \E g \in Gens :
        /\ reader[g]["stdout"].pc = "call"
        /\ reader[g]["stderr"].pc = "read"
        /\ reader[g]["stderr"].h = reader[g]["stdout"].h
        /\ stream[g]["stderr"] # <<>>

\* C19: the environment of a spawned child is the configured environment
\* merged over that of the supervisor: every configured key has its
\* configured value, every other inherited variable is passed unchanged,
\* and there is no other variable.
C19_EnvMerged ==
    lastExec.program # <<>> =>
        /\ DOMAIN lastExec.env = DOMAIN osEnv \cup DOMAIN get_env(program)
        /\ \A k \in DOMAIN get_env(program) : lastExec.env[k] = get_env(program)[k]
        /\ \A k \in DOMAIN osEnv \ DOMAIN get_env(program) : lastExec.env[k] = osEnv[k]

\* A child was spawned where VAR1 is configured with another value than the
\* inherited one, and HOME is inherited only.
C19_Witness ==
    /\ lastExec.program # <<>>
    /\ "VAR1" \in DOMAIN get_env(program) \cap DOMAIN osEnv
    /\ osEnv["VAR1"] # get_env(program)["VAR1"]
    /\ "HOME" \in DOMAIN osEnv \ DOMAIN get_env(program)

\* Position i of text s starts a placeholder: a dollar before a word character.
StartsPlaceholder(s, i) == s[i] = "$" /\ i < Len(s) /\ IsWordChar(s[i + 1])

\* The name of the placeholder that starts at i: all the word characters
\* that follow the dollar.
NameAt(s, i) ==
    LET j == CHOOSE j \in (i + 1)..Len(s) :
                 /\ \A k \in (i + 1)..j : IsWordChar(s[k])
                 /\ (j = Len(s) \/ ~IsWordChar(s[j + 1]))
    IN  SubSeq(s, i + 1, j)

\* Position i of text s lies in the name of a placeholder of a known name.
InKnownName(s, i, args) ==
    \E p \in 1..(i - 1) :
        /\ StartsPlaceholder(s, p)
        /\ NameAt(s, p) \in DOMAIN args
        /\ i <= p + Len(NameAt(s, p))

\* What position i of text s gives to the result: the value of a known
\* name in place of its placeholder, and every other character as it is.
Piece(s, i, args) ==
    IF StartsPlaceholder(s, i) /\ NameAt(s, i) \in DOMAIN args THEN args[NameAt(s, i)]
    ELSE IF InKnownName(s, i, args) THEN <<>>
    ELSE <<s[i]>>

\* The text s with the placeholders of known names replaced, once.
RECURSIVE PiecesFrom(_, _, _)
PiecesFrom(s, i, args) ==
    IF i > Len(s) THEN <<>> ELSE Piece(s, i, args) \o PiecesFrom(s, i + 1, args)

Substituted(s, args) == PiecesFrom(s, 1, args)

\* C20: get_command() and get_input() give the configured text with every
\* placeholder of a known name replaced by its value, in one pass, and
\* every placeholder of an unknown name unchanged; without an input
\* get_input() gives None.  The launcher is built with these texts.
C20_PlaceholdersReplaced ==
    /\ get_command(program) = Substituted(program.command, program.args)
    /\ get_input(program) =
          IF program.input = <<>> THEN <<>>
          ELSE <<Substituted(program.input[1], program.args)>>
    /\ caller.pc # "new" =>
          /\ command = Substituted(program.command, program.args)
          /\ (input = "none") <=> (program.input = <<>>)

\* A launcher is built for a command with a placeholder whose value is a
\* placeholder again, and a placeholder of an unknown name.
C20_Witness ==
    /\ caller.pc = "idle"
    /\ program.command = <<"$", "a", "$", "b">>
    /\ DOMAIN program.args = {<<"a">>}
    /\ program.args[<<"a">>] = <<"$", "a">>
    /\ command = <<"$", "a", "$", "b">>
    /\ program.input = << <<"$", "a">> >>

\* The file is text: every line is UTF-8.
IsText(f) == f # NoFile /\ \A i \in 1..Len(f[1]) : f[1][i].kind # "binary"

\* The lines of file f that set key k.
LinesOf(f, k) == {i \in 1..Len(f[1]) : f[1][i].kind = "pair" /\ f[1][i].key = k}

\* The value of key k in file f, which sets k once.
ValueOf(f, k) == f[1][CHOOSE i \in LinesOf(f, k) : TRUE].val

\* The text is a valid configuration: every line is a pair, no key is set
\* twice, id and command are there, and every field has a value of its type.
ValidConf(f) ==
    /\ \A i \in 1..Len(f[1]) : f[1][i].kind = "pair"
    /\ \A i, j \in 1..Len(f[1]) : f[1][i].key = f[1][j].key => i = j
    /\ LinesOf(f, "id") # {} /\ LinesOf(f, "command") # {}
    /\ \A i \in LinesOf(f, "id") \cup LinesOf(f, "command") \cup LinesOf(f, "input") :
          f[1][i].type = "string"
    /\ \A i \in LinesOf(f, "superuser") : f[1][i].type = "boolean"

\* parse_properties_file returns a Program only for valid content, and the
\* Program it returns has the values of the file.
OnlyValidLoaded ==
    loaded = "Ok" =>
        /\ IsText(file) /\ ValidConf(file)
        /\ program.command = ValueOf(file, "command")
        /\ program.superuser = (LinesOf(file, "superuser") # {})
        /\ program.input = IF LinesOf(file, "input") = {} THEN <<>>
                           ELSE <<ValueOf(file, "input")>>

\* C21 as stated: parse_properties_file fails with NotFound when the file
\* does not exist and with InvalidInput whenever the file exists and is not
\* a valid configuration, and returns a Program only for valid content.
C21_AsClaimed ==
    caller.pc # "load" =>
        /\ file = NoFile => loaded = "NotFound"
        /\ (file # NoFile /\ ~(IsText(file) /\ ValidConf(file))) => loaded = "InvalidInput"
        /\ OnlyValidLoaded

\* C21: parse_properties_file fails with NotFound when the file does not
\* exist, with the error of the read (InvalidData) when the file is not
\* UTF-8 text, and with InvalidInput when the file is text but not a valid
\* configuration; it returns a Program only for valid content.
C21_LoadErrors ==
    caller.pc # "load" =>
        /\ file = NoFile => loaded = "NotFound"
        /\ (file # NoFile /\ ~IsText(file)) => loaded = "InvalidData"
        /\ (IsText(file) /\ ~ValidConf(file)) => loaded = "InvalidInput"
        /\ OnlyValidLoaded

\* A file that sets id and input but no command was rejected with
\* InvalidInput, and nothing was built or started.
C21_Witness ==
    /\ caller.pc = "failed"
    /\ loaded = "InvalidInput"
    /\ file # NoFile
    /\ Len(file[1]) = 2
    /\ LinesOf(file, "id") # {} /\ LinesOf(file, "input") # {}
    /\ program = NoProgram

\* Poller g takes a step.
PollerStep(g) == poller'[g] # poller[g]

\* C22: a status poller that observes an exit acts in a fixed order: it
\* goes on to the status sink with the slot as it is, invokes the sink with
\* the status of that exit, leaves the slot alone until the invocation has
\* returned, and only then clears the slot and ends.
C22_ReportThenClear ==
    [][\A g \in Gens :
        /\ (PollerPoll(g) /\ wait_child(slot) = "Exited") =>
              /\ poller'[g].pc = "locksink"
              /\ poller'[g].got = slot
              /\ slot' = slot
        /\ (poller[g].pc = "locksink" /\ PollerStep(g)) =>
              /\ poller'[g].pc = "call"
              /\ poller'[g].status = proc[poller[g].got].status
              /\ notified'[poller[g].got] = notified[poller[g].got] + 1
              /\ slot' = slot
        /\ (poller[g].pc = "call" /\ PollerStep(g)) =>
              /\ poller'[g].pc = "forget"
              /\ slot' = slot
        /\ (poller[g].pc = "forget" /\ poller[g].got # 0 /\ PollerStep(g)) =>
              /\ notified[poller[g].got] >= 1
              /\ slot' = 0
              /\ poller'[g].pc = "done"]_vars

\* The status sink has been invoked with the exit of the first child and
\* has returned, and the slot still holds the handle: the poller is about
\* to clear it.
C22_Witness ==
    /\ poller[1].pc = "forget"
    /\ poller[1].got = 1
    /\ notified[1] = 1
    /\ slot = 1
    /\ proc[1].st = "reaped"

\* The reader of stream s of child g ends in this step.
ReaderEnds(g, s) == reader[g][s].pc # "done" /\ reader'[g][s].pc = "done"

C24_ReadersEnd ==
    \A g \in Gens, s \in Streams :
        (proc[g].st = "gone" /\ ~is_running(slot) /\ reader[g][s].pc = "read")
            ~> reader[g][s].pc = "done"

\* What a failed read of the reader of stream s of child g may not touch:
\* the slot, the processes, the other readers, the pollers, the stop
\* threads and the caller.
OthersChanged(g, s) ==
    \/ <<slot, lock, proc, poller, stopper, caller, notified>>'
          # <<slot, lock, proc, poller, stopper, caller, notified>>
    \/ \E k \in Gens, o \in Streams : <<k, o>> # <<g, s>> /\ reader'[k][o] # reader[k][o]

\* C25: a read that fails with an error other than would-block ends the
\* reader that made it, and changes nothing else: there is no failed read
\* after which the reader is still running, and none that changes the
\* slot, another task or the caller.
C25_ReadErrorEndsReader ==
    \A g \in Gens, s \in Streams :
        /\ ~ENABLED (ReaderReadError(g, s) /\ reader'[g][s].pc # "done")
        /\ ~ENABLED (ReaderReadError(g, s) /\ OthersChanged(g, s))

\* No task of child g has been launched.
NoTasks(g) == poller[g].pc = "none" /\ \A s \in Streams : reader[g][s].pc = "none"

\* A task of child g is launched in this step.
Launched(g) ==
    \/ poller[g].pc = "none" /\ poller'[g].pc # "none"
    \/ \E s \in Streams : reader[g][s].pc = "none" /\ reader'[g][s].pc # "none"

\* C26: start() stores the handle in the slot before it launches any of
\* the three tasks: while start() has not yet stored the handle of its
\* child no task of that child exists, the step from there stores the
\* handle, and the tasks of a child are launched, the three of them at
\* once, only by the step of start() that follows the store.
C26_InstallBeforeTasks ==
    [][/\ (caller.pc = "start_keep" /\ caller' # caller) =>
              /\ NoTasks(caller.child)
              /\ slot' = caller.child
              /\ caller'.pc = "start_tasks"
              /\ caller'.child = caller.child
              /\ UNCHANGED <<reader, poller>>
       /\ \A g \in Gens :
              Launched(g) =>
                  /\ caller.pc = "start_tasks"
                  /\ caller.child = g
                  /\ NoTasks(g)
                  /\ poller'[g].pc = "poll"
                  /\ \A s \in Streams : reader'[g][s].pc = "read"]_vars

\* start() has returned Ok: the handle of its child is in the slot and
\* the three tasks of the child are at the start of their loops.
C26_Witness ==
    /\ caller = [pc |-> "idle", op |-> "start", child |-> 0, res |-> "Ok"]
    /\ slot = 2
    /\ proc[2].st = "running"
    /\ poller[2].pc = "poll"
    /\ \A s \in Streams : reader[2][s].pc = "read"

\* C27: with a stdin payload configured, the step of start() that spawns
\* the child and goes on to the install has written the whole payload to
\* the child's stdin and closed it, with the handle not yet in the slot and
\* no task of the child launched; nothing writes to or reopens that stdin
\* afterwards.
C27_PayloadThenClose ==
    [][/\ (StartSpawn /\ caller'.pc = "start_keep" /\ get_input(program) # <<>>) =>
              /\ lastExec'.stdin = [data |-> get_input(program)[1], open |-> FALSE]
              /\ slot' # caller'.child
              /\ NoTasks(caller'.child)
              /\ UNCHANGED <<slot, reader, poller>>
       /\ ~StartSpawn => UNCHANGED lastExec]_vars

\* start() has returned Ok for a child whose payload was the input text
\* with its placeholder replaced: the child got the text and end-of-input.
C27_Witness ==
    /\ caller = [pc |-> "idle", op |-> "start", child |-> 0, res |-> "Ok"]
    /\ program.input = << <<"$", "a">> >>
    /\ lastExec.stdin = [data |-> <<"x">>, open |-> FALSE]
    /\ slot = 1
    /\ poller[1].pc = "poll"

\* No reader is in output handler h; no poller is in status handler h.
OutputIdle(h) == \A g \in Gens, s \in Streams : ~(reader[g][s].pc = "call" /\ reader[g][s].h = h)
StatusIdle(h) == \A g \in Gens : ~(poller[g].pc = "call" /\ poller[g].h = h)

\* C28: output delivery and status delivery never block each other, and
\* neither needs the lock of the slot: a reader that has read bytes can
\* invoke its output sink as soon as no other reader is in that sink, and a
\* poller that has an exit to report can invoke its status sink as soon as
\* no other poller is in that sink, whatever the tasks of the other kind
\* and the holder of the slot's lock are doing.
C28_SinksIndependent ==
    /\ \A g \in Gens, s \in Streams :
          (reader[g][s].pc = "read" /\ stream[g][s] # <<>> /\ OutputIdle(reader[g][s].h))
              => ENABLED ReaderRead(g, s)
    /\ \A g \in Gens :
          (poller[g].pc = "locksink" /\ StatusIdle(poller[g].h)) => ENABLED PollerCall(g)
    /\ \A g \in Gens, s \in Streams : reader[g][s].pc = "call" => ENABLED ReaderReturn(g, s)
    /\ \A g \in Gens : poller[g].pc = "call" => ENABLED PollerReturn(g)

\* A reader is in the output sink and the poller is in the status sink at
\* the same time, while the other reader has bytes for the output sink.
C28_Witness ==
    /\ poller[1].pc = "call"
    /\ reader[1]["stdout"].pc = "call"
    /\ reader[1]["stderr"].pc = "read"
    /\ stream[1]["stderr"] # <<>>

\* C29: a stop() that finds the slot empty when it takes the slot's lock
\* returns Ok, also when the slot was occupied at its running check: a
\* child that exits and is cleared by its status poller in between never
\* makes stop() return an error.
C29_StopAfterExitOk ==
    [][(StopLock(0) /\ ~is_running(slot)) =>
          /\ caller'.pc = "idle"
          /\ caller'.res = "Ok"]_vars

\* C30: for each child that start() has spawned, a status sink is invoked
\* at most once with its exit status, whatever stop(), later start() calls
\* and the status pollers of earlier children do.
C30_ReportedAtMostOnce == \A g \in Gens : notified[g] <= 1

\* C31: once the status poller launched for a child that a synchronous
\* stop() interrupted and waited for, returning Ok, has ended, a status sink
\* has been invoked with that child's exit status (every stop of SpecRace is
\* synchronous, so a handle dropped with the interrupt's status is one that
\* stop() has waited for).
C31_SyncStopReported ==
    \A g \in Gens :
        (proc[g] = [st |-> "gone", status |-> "sigint"] /\ poller[g].pc = "done")
            => notified[g] >= 1

\* C32: a status poller polls and clears only the handle of the child it
\* was launched for: whenever the poller of child g gets an answer from
\* wait_child or runs forget_child, the slot is empty or holds the handle of
\* child g, never that of a child started later.
C32_PollerKeepsToItsChild ==
    [][\A g \in Gens : (PollerPoll(g) \/ PollerForget(g)) => slot \in {0, g}]_vars

\* C33: the interrupt sent by the thread of a stop_async() call that was
\* made while the slot held a child reaches only that child: a child
\* started after the call is not signalled by that thread.
C33_AsyncStopHitsItsChild ==
    [][\A t \in StopThreads \ {0} :
          (StopKill(t) /\ stopper[t].asked # 0 /\ proc' # proc)
              => stopper[t].target = stopper[t].asked]_vars

\* The UI and the launcher are at rest: every message sent has been
\* received, no call of the adapter is under way, and no status poller and
\* no stop thread is at work.
UiAtRest ==
    /\ AllReceived
    /\ caller.pc = "idle"
    /\ \A g \in Gens : poller[g].pc \in {"none", "done"}
    /\ \A t \in StopThreads : stopper[t].pc = "none"

C35_RunItemEnabledAgain ==
    [][ReceiveStopped => ui'.tray.item_run.enabled]_vars

\* C36: whenever the main loop is idle and no message of the UI waits in the
\* channel, the tray's visibility item reads "Hide" exactly when the terminal
\* window is visible and "Show" exactly when it is hidden, whatever
\* Show/Hide clicks, Close clicks, Run clicks and program exits came before.
C36_VisibilityItemFollowsWindow ==
    (ui.pc = "idle" /\ ui.queue = <<>>) =>
        /\ ui.tray.item_show.text = "Hide" <=> ui.terminal.visible
        /\ ui.tray.item_show.text = "Show" <=> ~ui.terminal.visible

====
